---- MODULE Spec2Model ----
(***************************************************************************)
(* Model of the concurrency crate: the scatter-gather matrix multiply of   *)
(* src/matrix.rs (dispatcher thread, NUM_THREADS workers, one mpsc task    *)
(* channel per worker, one oneshot reply channel per task), the dot        *)
(* product of src/vector.rs and the Display impl of Matrix.                *)
(***************************************************************************)
EXTENDS Integers, Sequences, FiniteSets, TLC

\* ------------------------------------------------------------------ bounds
\* Largest a.rows, a.cols / b.rows and b.cols of the operands explored.
MaxRows == 3
MaxInner == 3
MaxCols == 3
\* Largest number of cells a.rows * b.cols of the result, so of tasks.
MaxCells == 6
\* Vectors handed to dot_product directly: lengths 0..MaxLen, elements 0..MaxVal.
MaxLen == 2
MaxVal == 2
\* CmapMetrics: the threads sharing one CmapMetrics and the calls each makes.
MaxThreads == 2
MaxOps == 2

\* matrix.rs:11
NUM_THREADS == 4

\* len(data) - rows*cols of an operand: Matrix::new does not validate it.
LenSlack == {-1, 0, 1}

\* Operand data counts upwards from one of these values: the operands of
\* multiply are filled 1, 2, 3, ... as in the tests of matrix.rs, the
\* matrices displayed also from 0 and from 9 (two-digit cells).
MultBases == {1}
FmtBases == {0, 1, 9}

Workers == 0 .. NUM_THREADS - 1

\* The threads that share clones of one CmapMetrics, and the keys they count.
Threads == 1 .. MaxThreads
Keys == {"x", "y"}

\* ------------------------------------------------------- values and helpers
\* T::default() for the integer element type.
Default == 0

Max(x, y) == IF x >= y THEN x ELSE y

\* Result<T>: Ok(value) / Err(anyhow!(..)).
Ok(v) == [ok |-> TRUE, value |-> v]
Err(why) == [ok |-> FALSE, value |-> why]

\* Matrix::new(rows, cols, data): stores the triple as given.
Matrix(rows, cols, data) == [rows |-> rows, cols |-> cols, data |-> data]

\* data = base, base+1, ... of the given length.
Fill(len, base) == [n \in 1 .. len |-> base + n - 1]

Shapes(maxr, maxc, bases) ==
    { Matrix(r, c, Fill(Max(r * c + s, 0), base)) :
        r \in 0 .. maxr, c \in 0 .. maxc, s \in LenSlack, base \in bases }

WellFormed(m) == Len(m.data) = m.rows * m.cols

\* ------------------------------------------------------------- vector.rs
\* The accumulation loop of dot_product: `for i in 0..a.len()` with
\* `result += a[i] * b[i]`; i is the 0-based loop index.
\* Mutation: `result = a[i] * b[i]` in place of `+=`.
RECURSIVE DotLoopAssign(_, _, _, _)
DotLoopAssign(va, vb, i, result) ==
    IF i >= Len(va) THEN result
    ELSE DotLoopAssign(va, vb, i + 1, va[i + 1] * vb[i + 1])

RECURSIVE DotLoop(_, _, _, _)
DotLoop(va, vb, i, result) ==
    IF i >= Len(va) THEN result
    ELSE DotLoop(va, vb, i + 1, result + va[i + 1] * vb[i + 1])

dot_product(va, vb) ==
    IF Len(va) # Len(vb)
    THEN Err("Incompatible vector dimensions")
    ELSE Ok(DotLoop(va, vb, 0, Default))

\* ------------------------------------------------------------------ state
VARIABLES
    a, b,          \* the operands of the call
    mulpc,         \* the operator form `a * b`: "none" (multiply called directly),
                   \* "calling", "returned", "panic"
    mulOut,        \* <<m>> once `a * b` has produced its Output m
    pc,            \* the dispatcher (the thread inside multiply): "check",
                   \* "spawn", "dispatch", "gather", "done", "err", "panic"
    ret,           \* <<r>> once multiply has returned the Result r
    i, j,          \* the loop indices of the dispatch loops
    sendersHeld,   \* the dispatcher still owns `senders`
    chan,          \* chan[w]: the Msgs queued on worker w's mpsc channel
    wpc,           \* wpc[w]: "unborn", "idle" (in rx's next()), "busy" (holds a
                   \* Msg), "exited" (left the for loop), "panicked"
    cur,           \* cur[w]: the Msg worker w is processing
    oneshots,      \* the oneshot reply channels in creation order
    receivers,     \* the receiving ends the dispatcher retains, in order
    result,        \* the result buffer
    writes,        \* history: writes[n] counts the writes to result[n]
    reordered,     \* history: some reply was sent before the reply of an
                   \* earlier task
    consumed,      \* history: the oneshot channels of the Msgs workers received
    taken,         \* history: taken[w] lists the idx of the Msgs worker w
                   \* received, in the order it received them
    recvLog,       \* history: for each reply the dispatcher received, in
                   \* order, the channel it came from and the idx it carried
    failures,      \* history: the kinds of failed unwraps so far
    va, vb,        \* operands of a direct dot_product call
    dpc,           \* "idle", "call", "ret": the direct dot_product call
    dotOut,        \* <<r>> once dot_product has returned r
    fm,            \* the matrix handed to Display
    fpc,           \* "idle", "call", "ret", "panic": the Display call
    shown,         \* the text written to the formatter
    mdata,         \* CmapMetrics: the HashMap behind the mutex (key -> count)
    holder,        \* the thread that holds the mutex, 0 when it is free
    tpc,           \* tpc[t]: where thread t is in inc or in snapshot
    tkey,          \* tkey[t]: the key of thread t's inc call
    tmp,           \* tmp[t]: the count thread t loaded in `*counter += 1`
    ops,           \* ops[t]: the calls thread t has completed
    completed,     \* history: completed[k] counts the inc(k) calls returned
    lastSnap,      \* history: <<>> or the last snapshot returned, with the
                   \* inc calls that had completed when it was taken
    prevSnap       \* history: <<>> or the map returned by the snapshot
                   \* before lastSnap

multVars == <<a, b, mulpc, mulOut, pc, ret, i, j, sendersHeld, chan, wpc, cur,
              oneshots, receivers, result, writes, reordered, consumed,
              taken, recvLog, failures>>
dotVars == <<va, vb, dpc, dotOut>>
fmtVars == <<fm, fpc, shown>>
cmapVars == <<mdata, holder, tpc, tkey, tmp, ops, completed, lastSnap, prevSnap>>
vars == <<multVars, dotVars, fmtVars, cmapVars>>

Range(s) == { s[n] : n \in DOMAIN s }

\* MsgInput::new(idx, row, col) and Msg::new(input, sender); `sender` is the
\* number of the oneshot channel whose sending end the Msg carries.
MsgInput(idx, row, col) == [idx |-> idx, row |-> row, col |-> col]
Msg(input, sender) == [input |-> input, sender |-> sender]
NoMsg == Msg(MsgInput(0, <<>>, <<>>), 0)
MsgOutput(idx, value) == [idx |-> idx, value |-> value]

\* oneshot::channel() made for the task with index idx: nothing sent, both
\* ends alive. tx: "held" (inside a Msg), "used" (consumed by send),
\* "dropped" (dropped unsent). rx: "held", "used" (consumed by recv), "dropped".
NewOneshot(idx) == [task |-> idx, sent |-> <<>>, tx |-> "held", rx |-> "held"]

\* ------------------------------------------------ matrix.rs: the dispatcher
\* `b.data[j..]` panics when j > len.
ColInRange(jj) == jj <= Len(b.data)

\* b.data[j..].iter().step_by(b.cols).copied().collect(): the elements at
\* the 0-based positions j, j + cols, j + 2*cols, ... below len.
ColData(jj) ==
    [n \in 1 .. ((Len(b.data) - jj + b.cols - 1) \div b.cols) |->
        b.data[jj + (n - 1) * b.cols + 1]]

\* `a.data[i * a.cols..(i + 1) * a.cols]` panics when the end exceeds len.
RowInRange(ii) == (ii + 1) * a.cols <= Len(a.data)

\* Mutation: `a.data[i..i + a.cols]`: the row start is not scaled by cols.
RowDataUnscaled(ii) == SubSeq(a.data, ii + 1, ii + a.cols)

\* The slice a.data[i * a.cols..(i + 1) * a.cols] as a Vector.
RowData(ii) == SubSeq(a.data, ii * a.cols + 1, (ii + 1) * a.cols)

\* Mutation: the worker is chosen by blocks of NUM_THREADS tasks.
WorkerOfByBlock(idx) == (idx \div NUM_THREADS) % NUM_THREADS

\* senders[idx % NUM_THREADS]
WorkerOf(idx) == idx % NUM_THREADS

\* A worker whose thread has ended has dropped its Receiver.
ReceiverGone(w) == wpc[w] \in {"exited", "panicked"}

\* The dispatcher panics (an index out of range or an unwrap of Err): the
\* stack unwinds, dropping `receivers` and `senders`; a panic inside
\* multiply also unwinds through the operator form.
DispatcherPanic ==
    /\ pc' = "panic"
    /\ sendersHeld' = FALSE
    /\ receivers' = <<>>
    /\ oneshots' = [ch \in DOMAIN oneshots |->
                      IF ch \in Range(receivers)
                      THEN [oneshots[ch] EXCEPT !.rx = "dropped"]
                      ELSE oneshots[ch]]
    /\ mulpc' = IF mulpc = "calling" THEN "panic" ELSE mulpc

\* Mutation: the guard compares the column counts.
IncompatibleByCols(ma, mb) == ma.cols # mb.cols

\* The guard of matrix.rs:72.
Incompatible(ma, mb) == ma.cols # mb.rows

\* matrix.rs:72-74
CheckDims ==
    /\ pc = "check"
    /\ IF Incompatible(a, b)
       THEN /\ pc' = "err"
            /\ ret' = <<Err("Incompatible matrix dimensions")>>
       ELSE /\ pc' = "spawn"
            /\ ret' = ret
    /\ UNCHANGED <<a, b, mulpc, mulOut, i, j, sendersHeld, chan, wpc, cur,
                   oneshots, receivers, result, writes, reordered, consumed>>
    /\ UNCHANGED <<taken, recvLog, failures>>
    /\ UNCHANGED <<dotVars, fmtVars, cmapVars>>

\* matrix.rs:76-96: the NUM_THREADS channels and threads, the result buffer
\* of a.rows * b.cols defaults and the empty `receivers`.
Spawn ==
    /\ pc = "spawn"
    /\ sendersHeld' = TRUE
    /\ wpc' = [w \in Workers |-> "idle"]
    /\ result' = [n \in 1 .. a.rows * b.cols |-> Default]
    /\ writes' = [n \in 1 .. a.rows * b.cols |-> 0]
    /\ i' = 0
    /\ j' = 0
    /\ pc' = IF a.rows = 0 \/ b.cols = 0 THEN "gather" ELSE "dispatch"
    /\ UNCHANGED <<a, b, mulpc, mulOut, ret, chan, cur, oneshots, receivers,
                   reordered, consumed>>
    /\ UNCHANGED <<taken, recvLog, failures>>
    /\ UNCHANGED <<dotVars, fmtVars, cmapVars>>

\* Mutation: `receivers.insert(0, rx)`: the newest receiver comes first.
RetainFront(rs, ch) == <<ch>> \o rs

\* receivers.push(rx) (matrix.rs:112).
Retain(rs, ch) == Append(rs, ch)

\* matrix.rs:97-114: one iteration of the inner dispatch loop.
Dispatch ==
    /\ pc = "dispatch"
    /\ LET idx == i * b.cols + j
           w == WorkerOf(idx)
           ch == Len(oneshots) + 1
       IN IF ~ColInRange(j) \/ ~RowInRange(i) \/ ReceiverGone(w)
          THEN /\ DispatcherPanic
               /\ failures' = failures \cup
                    {IF ColInRange(j) /\ RowInRange(i) THEN "task_send" ELSE "index"}
               /\ UNCHANGED <<chan, i, j>>
          ELSE /\ oneshots' = Append(oneshots, NewOneshot(idx))
               /\ chan' = [chan EXCEPT
                            ![w] = Append(@, Msg(MsgInput(idx, RowData(i), ColData(j)), ch))]
               /\ receivers' = Retain(receivers, ch)
               /\ failures' = failures
               /\ IF j + 1 < b.cols
                  THEN i' = i /\ j' = j + 1 /\ pc' = pc
                  ELSE IF i + 1 < a.rows
                       THEN i' = i + 1 /\ j' = 0 /\ pc' = pc
                       ELSE i' = i + 1 /\ j' = 0 /\ pc' = "gather"
               /\ UNCHANGED <<sendersHeld, mulpc>>
    /\ UNCHANGED <<a, b, mulOut, ret, wpc, cur, result, writes, reordered, consumed>>
    /\ UNCHANGED <<taken, recvLog>>
    /\ UNCHANGED <<dotVars, fmtVars, cmapVars>>

\* Mutation: the cell is chosen by how many replies have arrived so far.
WriteIdxByArrival(output) ==
    Cardinality({ch \in DOMAIN oneshots : oneshots[ch].sent # <<>>}) - 1

\* result[output.idx] = output.value (matrix.rs:118): the cell written.
WriteIdx(output) == output.idx

\* Mutation: a failed recv is skipped instead of unwrapped.
OnRecvErrSkip ==
    /\ receivers' = Tail(receivers)
    /\ oneshots' = [oneshots EXCEPT ![Head(receivers)].rx = "used"]
    /\ UNCHANGED <<pc, sendersHeld, mulpc, result, writes>>

\* rx.recv().unwrap() on Err (matrix.rs:117): the sender was dropped unsent.
OnRecvErr ==
    /\ DispatcherPanic
    /\ UNCHANGED <<result, writes>>

\* Mutation: a try_recv: the receive fails whenever no reply is there yet.
RecvFailsOnEmpty(os) == os.sent = <<>>

\* rx.recv() returns Err: nothing was sent and the sender is dropped.
RecvFails(os) == os.sent = <<>> /\ os.tx = "dropped"

\* matrix.rs:116-119: one iteration of `for rx in receivers`. recv blocks
\* until the reply is there or its sender is gone.
Gather ==
    /\ pc = "gather"
    /\ receivers # <<>>
    /\ LET ch == Head(receivers)
           os == oneshots[ch]
       IN \/ /\ os.sent # <<>>
             /\ LET output == Head(os.sent)
                    at == WriteIdx(output) + 1
                IN /\ result' = [result EXCEPT ![at] = output.value]
                   /\ writes' = [writes EXCEPT ![at] = @ + 1]
             /\ oneshots' = [oneshots EXCEPT ![ch].rx = "used"]
             /\ receivers' = Tail(receivers)
             /\ recvLog' = Append(recvLog, [ch |-> ch, idx |-> Head(os.sent).idx])
             /\ UNCHANGED <<pc, sendersHeld, mulpc, failures>>
          \/ /\ RecvFails(os)
             /\ OnRecvErr
             /\ failures' = failures \cup {"reply_recv"}
             /\ UNCHANGED recvLog
    /\ UNCHANGED <<a, b, mulOut, ret, i, j, chan, wpc, cur, reordered, consumed>>
    /\ UNCHANGED taken
    /\ UNCHANGED <<dotVars, fmtVars, cmapVars>>

\* Mutation: the gather loop stops one receiver short.
GatherFinishedEarly == Len(receivers) <= 1

\* The `for rx in receivers` loop has consumed every receiver.
GatherFinished == receivers = <<>>

\* Mutation: `senders` outlives the call.
SendersLeaked == TRUE

\* What becomes of `senders` when multiply's scope ends (matrix.rs:122).
SendersAfterReturn == FALSE

\* matrix.rs:121-122: Ok(Matrix::new(a.rows, b.cols, result)).
Return ==
    /\ pc = "gather"
    /\ GatherFinished
    /\ ret' = <<Ok(Matrix(a.rows, b.cols, result))>>
    /\ pc' = "done"
    /\ sendersHeld' = SendersAfterReturn
    /\ UNCHANGED <<a, b, mulpc, mulOut, i, j, chan, wpc, cur, oneshots,
                   receivers, result, writes, reordered, consumed>>
    /\ UNCHANGED <<taken, recvLog, failures>>
    /\ UNCHANGED <<dotVars, fmtVars, cmapVars>>

\* --------------------------------------------------- matrix.rs: the workers
\* Mutation: the reply carries the worker's number instead of the task's idx.
ReplyIdxOfWorker(msg) == msg.input.idx % NUM_THREADS

\* The reply's idx (matrix.rs:85) and the channel it is sent on (matrix.rs:83).
ReplyIdx(msg) == msg.input.idx
ReplyChannel(msg) == msg.sender

\* Mutation: the worker looks at the next Msg without taking it off the queue.
WorkerRecvPeek(w) ==
    /\ wpc[w] = "idle"
    /\ chan[w] # <<>>
    /\ Head(chan[w]).sender \notin consumed
    /\ cur' = [cur EXCEPT ![w] = Head(chan[w])]
    /\ wpc' = [wpc EXCEPT ![w] = "busy"]
    /\ consumed' = consumed \cup {Head(chan[w]).sender}
    /\ taken' = [taken EXCEPT ![w] = Append(@, Head(chan[w]).input.idx)]
    /\ UNCHANGED <<chan, recvLog, failures>>
    /\ UNCHANGED <<a, b, mulpc, mulOut, pc, ret, i, j, sendersHeld, oneshots,
                   receivers, result, writes, reordered>>
    /\ UNCHANGED <<dotVars, fmtVars, cmapVars>>

\* `for msg in rx` (matrix.rs:81): the worker takes the next queued Msg.
WorkerRecv(w) ==
    /\ wpc[w] = "idle"
    /\ chan[w] # <<>>
    /\ cur' = [cur EXCEPT ![w] = Head(chan[w])]
    /\ chan' = [chan EXCEPT ![w] = Tail(@)]
    /\ wpc' = [wpc EXCEPT ![w] = "busy"]
    /\ consumed' = consumed \cup {Head(chan[w]).sender}
    /\ taken' = [taken EXCEPT ![w] = Append(@, Head(chan[w]).input.idx)]
    /\ UNCHANGED <<recvLog, failures>>
    /\ UNCHANGED <<a, b, mulpc, mulOut, pc, ret, i, j, sendersHeld, oneshots,
                   receivers, result, writes, reordered>>
    /\ UNCHANGED <<dotVars, fmtVars, cmapVars>>

\* Mutation: a try_recv loop: an empty queue ends the worker.
DisconnectedOrEmpty == TRUE

\* The channel is disconnected: every Sender of it is dropped.
Disconnected == ~sendersHeld

\* `for msg in rx` ends: the queue is empty and every Sender is dropped.
WorkerExit(w) ==
    /\ wpc[w] = "idle"
    /\ chan[w] = <<>>
    /\ Disconnected
    /\ wpc' = [wpc EXCEPT ![w] = "exited"]
    /\ UNCHANGED <<a, b, mulpc, mulOut, pc, ret, i, j, sendersHeld, chan, cur,
                   oneshots, receivers, result, writes, reordered, consumed>>
    /\ UNCHANGED <<taken, recvLog, failures>>
    /\ UNCHANGED <<dotVars, fmtVars, cmapVars>>

\* A worker panics on an unwrap: its thread unwinds, dropping the Msg it
\* holds and its Receiver with every Msg still queued, and so the oneshot
\* senders inside them. `mine` is what became of the sender of its own Msg.
WorkerPanic(w, mine) ==
    /\ wpc' = [wpc EXCEPT ![w] = "panicked"]
    /\ cur' = [cur EXCEPT ![w] = NoMsg]
    /\ chan' = [chan EXCEPT ![w] = <<>>]
    /\ oneshots' = [ch \in DOMAIN oneshots |->
                      IF ch = cur[w].sender
                      THEN [oneshots[ch] EXCEPT !.tx = mine]
                      ELSE IF \E n \in DOMAIN chan[w] : chan[w][n].sender = ch
                           THEN [oneshots[ch] EXCEPT !.tx = "dropped"]
                           ELSE oneshots[ch]]
    /\ UNCHANGED reordered

\* Mutation: unwrap_or_default: a failed dot product is answered with the
\* default value.
OnDotErrReplyDefault(w) ==
    /\ oneshots' = [oneshots EXCEPT
          ![cur[w].sender].sent = Append(@, MsgOutput(cur[w].input.idx, Default)),
          ![cur[w].sender].tx = "used"]
    /\ wpc' = [wpc EXCEPT ![w] = "idle"]
    /\ cur' = [cur EXCEPT ![w] = NoMsg]
    /\ UNCHANGED <<chan, reordered>>

\* dot_product(..).unwrap() on Err (matrix.rs:82): the worker panics with its
\* Msg, and so the Msg's oneshot sender, dropped unsent.
OnDotErr(w) == WorkerPanic(w, "dropped")

\* matrix.rs:82-88: the body of the worker's loop.
WorkerReply(w) ==
    /\ wpc[w] = "busy"
    /\ LET msg == cur[w]
           value == dot_product(msg.input.row, msg.input.col)
           ch == ReplyChannel(msg)
       IN IF ~value.ok
          THEN /\ OnDotErr(w)
               /\ failures' = failures \cup {"dot_product"}
          ELSE IF oneshots[ch].rx = "dropped"
               THEN /\ WorkerPanic(w, "used")
                    /\ failures' = failures \cup {"reply_send"}
               ELSE /\ failures' = failures
                    /\ oneshots' = [oneshots EXCEPT
                          ![ch].sent = Append(@, MsgOutput(ReplyIdx(msg), value.value)),
                          ![ch].tx = "used"]
                    /\ reordered' = (reordered \/
                          \E ch2 \in 1 .. ch - 1 : oneshots[ch2].sent = <<>>)
                    /\ wpc' = [wpc EXCEPT ![w] = "idle"]
                    /\ cur' = [cur EXCEPT ![w] = NoMsg]
                    /\ chan' = chan
    /\ UNCHANGED <<a, b, mulpc, mulOut, pc, ret, i, j, sendersHeld, receivers,
                   result, writes, consumed, taken, recvLog>>
    /\ UNCHANGED <<dotVars, fmtVars, cmapVars>>

\* ------------------------------------------- matrix.rs: the operator form
\* Mutation: unwrap_or_default-like: an Err becomes an empty matrix.
ExpectOrDefault(r) ==
    IF r.ok THEN [pc |-> "returned", out |-> <<r.value>>]
    ELSE [pc |-> "returned", out |-> <<Matrix(0, 0, <<>>)>>]

\* Result::expect (matrix.rs:64): the Ok value, or a panic.
Expect(r) ==
    IF r.ok THEN [pc |-> "returned", out |-> <<r.value>>]
    ELSE [pc |-> "panic", out |-> <<>>]

\* matrix.rs:63-65: multiply(&self, &rhs) has returned into mul.
MulExpect ==
    /\ mulpc = "calling"
    /\ pc \in {"done", "err"}
    /\ mulpc' = Expect(Head(ret)).pc
    /\ mulOut' = Expect(Head(ret)).out
    /\ UNCHANGED <<a, b, pc, ret, i, j, sendersHeld, chan, wpc, cur, oneshots,
                   receivers, result, writes, reordered, consumed>>
    /\ UNCHANGED <<taken, recvLog, failures>>
    /\ UNCHANGED <<dotVars, fmtVars, cmapVars>>

\* ------------------------------------------------- matrix.rs: Display
\* Mutation: a space after every cell, the last of the row included.
RECURSIVE FmtRowTrailingSpace(_, _, _)
FmtRowTrailingSpace(m, ii, jj) ==
    IF jj >= m.cols THEN ""
    ELSE ToString(m.data[ii * m.cols + jj + 1]) \o " "
         \o FmtRowTrailingSpace(m, ii, jj + 1)

\* The inner loop of fmt from column jj on: each cell, then a space unless
\* it is the last cell of the row.
RECURSIVE FmtRow(_, _, _)
FmtRow(m, ii, jj) ==
    IF jj >= m.cols THEN ""
    ELSE ToString(m.data[ii * m.cols + jj + 1])
         \o (IF jj < m.cols - 1 THEN " " ELSE "")
         \o FmtRow(m, ii, jj + 1)

\* The outer loop of fmt from row ii on: each row, then ", " unless it is
\* the last row.
RECURSIVE FmtRows(_, _)
FmtRows(m, ii) ==
    IF ii >= m.rows THEN ""
    ELSE FmtRow(m, ii, 0)
         \o (IF ii < m.rows - 1 THEN ", " ELSE "")
         \o FmtRows(m, ii + 1)

Display(m) == "{" \o FmtRows(m, 0) \o "}"

\* self.data[i * self.cols + j] stays in range for every cell visited.
FmtInRange(m) == m.rows = 0 \/ m.cols = 0 \/ m.rows * m.cols <= Len(m.data)

\* format!("{}", fm): the text, or a panic on an index out of range.
Fmt ==
    /\ fpc = "call"
    /\ IF FmtInRange(fm)
       THEN shown' = Display(fm) /\ fpc' = "ret"
       ELSE shown' = shown /\ fpc' = "panic"
    /\ UNCHANGED fm
    /\ UNCHANGED <<multVars, dotVars, cmapVars>>

\* ------------------------------------------------ vector.rs: a direct call
CallDotProduct ==
    /\ dpc = "call"
    /\ dotOut' = <<dot_product(va, vb)>>
    /\ dpc' = "ret"
    /\ UNCHANGED <<va, vb>>
    /\ UNCHANGED <<multVars, fmtVars, cmapVars>>

\* --------------------------------------------------------- specifications
\* ------------------------------------------------- metrics/cmap.rs
\* HashMap::new()
EmptyMap == [k \in {} |-> 0]

\* Mutation: the mutex is not taken: lock() never waits.
MutexIgnored == TRUE

\* self.data.lock() returns once no thread holds the mutex. No code panics
\* while holding it (the counts stay far below the width of i64), so the
\* mutex is never poisoned and lock() never returns Err.
MutexFree == holder = 0

\* data.entry(key).or_insert(0) (cmap.rs:30): an absent key is created at 0.
OrInsert(m, key) ==
    [k \in DOMAIN m \cup {key} |-> IF k \in DOMAIN m THEN m[k] ELSE 0]

\* inc(key) is called and acquires the lock (cmap.rs:28-29); a thread that
\* waits for the lock has changed nothing yet.
IncLock(t, key) ==
    /\ tpc[t] = "idle"
    /\ ops[t] < MaxOps
    /\ MutexFree
    /\ holder' = t
    /\ tpc' = [tpc EXCEPT ![t] = "inc_entry"]
    /\ tkey' = [tkey EXCEPT ![t] = key]
    /\ UNCHANGED <<mdata, tmp, ops, completed, lastSnap, prevSnap>>
    /\ UNCHANGED <<multVars, dotVars, fmtVars>>

\* cmap.rs:30
IncEntry(t) ==
    /\ tpc[t] = "inc_entry"
    /\ mdata' = OrInsert(mdata, tkey[t])
    /\ tpc' = [tpc EXCEPT ![t] = "inc_load"]
    /\ UNCHANGED <<holder, tkey, tmp, ops, completed, lastSnap, prevSnap>>
    /\ UNCHANGED <<multVars, dotVars, fmtVars>>

\* cmap.rs:31, `*counter += 1`: the count is loaded ..
IncLoad(t) ==
    /\ tpc[t] = "inc_load"
    /\ tmp' = [tmp EXCEPT ![t] = mdata[tkey[t]]]
    /\ tpc' = [tpc EXCEPT ![t] = "inc_store"]
    /\ UNCHANGED <<mdata, holder, tkey, ops, completed, lastSnap, prevSnap>>
    /\ UNCHANGED <<multVars, dotVars, fmtVars>>

\* .. and stored back one higher.
IncStore(t) ==
    /\ tpc[t] = "inc_store"
    /\ mdata' = [mdata EXCEPT ![tkey[t]] = tmp[t] + 1]
    /\ tmp' = [tmp EXCEPT ![t] = 0]
    /\ tpc' = [tpc EXCEPT ![t] = "inc_ret"]
    /\ UNCHANGED <<holder, tkey, ops, completed, lastSnap, prevSnap>>
    /\ UNCHANGED <<multVars, dotVars, fmtVars>>

\* cmap.rs:32-33: Ok(()) is returned and the guard dropped.
IncReturn(t) ==
    /\ tpc[t] = "inc_ret"
    /\ holder' = 0
    /\ tpc' = [tpc EXCEPT ![t] = "idle"]
    /\ ops' = [ops EXCEPT ![t] = @ + 1]
    /\ completed' = [completed EXCEPT ![tkey[t]] = @ + 1]
    /\ tkey' = [tkey EXCEPT ![t] = ""]
    /\ UNCHANGED <<mdata, tmp, lastSnap, prevSnap>>
    /\ UNCHANGED <<multVars, dotVars, fmtVars>>

\* snapshot() is called and acquires the lock (cmap.rs:35-39).
SnapshotLock(t) ==
    /\ tpc[t] = "idle"
    /\ ops[t] < MaxOps
    /\ MutexFree
    /\ holder' = t
    /\ tpc' = [tpc EXCEPT ![t] = "snap_clone"]
    /\ UNCHANGED <<mdata, tkey, tmp, ops, completed, lastSnap, prevSnap>>
    /\ UNCHANGED <<multVars, dotVars, fmtVars>>

\* cmap.rs:40-41: the map is cloned, the temporary guard dropped and the
\* clone returned.
SnapshotClone(t) ==
    /\ tpc[t] = "snap_clone"
    /\ lastSnap' = <<[map |-> mdata, done |-> completed]>>
    /\ prevSnap' = [n \in DOMAIN lastSnap |-> lastSnap[n].map]
    /\ holder' = 0
    /\ tpc' = [tpc EXCEPT ![t] = "idle"]
    /\ ops' = [ops EXCEPT ![t] = @ + 1]
    /\ UNCHANGED <<mdata, tkey, tmp, completed>>
    /\ UNCHANGED <<multVars, dotVars, fmtVars>>

NoMatrix == Matrix(0, 0, <<>>)

IdleMult(ma, mb, mpc, start) ==
    /\ a = ma
    /\ b = mb
    /\ mulpc = mpc
    /\ mulOut = <<>>
    /\ pc = start
    /\ ret = <<>>
    /\ i = 0
    /\ j = 0
    /\ sendersHeld = FALSE
    /\ chan = [w \in Workers |-> <<>>]
    /\ wpc = [w \in Workers |-> "unborn"]
    /\ cur = [w \in Workers |-> NoMsg]
    /\ oneshots = <<>>
    /\ receivers = <<>>
    /\ result = <<>>
    /\ writes = <<>>
    /\ reordered = FALSE
    /\ consumed = {}
    /\ taken = [w \in Workers |-> <<>>]
    /\ recvLog = <<>>
    /\ failures = {}

IdleDot == va = <<>> /\ vb = <<>> /\ dpc = "idle" /\ dotOut = <<>>

IdleFmt == fm = NoMatrix /\ fpc = "idle" /\ shown = ""

\* CmapMetrics::new() (cmap.rs:22-26): an empty map behind a free mutex; the
\* threads make `calls` calls each.
NewCmap(calls) ==
    /\ mdata = EmptyMap
    /\ holder = 0
    /\ tpc = [t \in Threads |-> "idle"]
    /\ tkey = [t \in Threads |-> ""]
    /\ tmp = [t \in Threads |-> 0]
    /\ ops = [t \in Threads |-> calls]
    /\ completed = [k \in Keys |-> 0]
    /\ lastSnap = <<>>
    /\ prevSnap = <<>>

IdleCmap == NewCmap(MaxOps)

\* A call of multiply(&a, &b), directly or through `a * b`.
Init ==
    /\ \E ma \in Shapes(MaxRows, MaxInner, MultBases),
          mb \in Shapes(MaxInner, MaxCols, MultBases),
          mpc \in {"none", "calling"} :
           /\ ma.rows * mb.cols <= MaxCells
           /\ IdleMult(ma, mb, mpc, "check")
    /\ IdleDot
    /\ IdleFmt
    /\ IdleCmap

Next ==
    \/ CheckDims
    \/ Spawn
    \/ Dispatch
    \/ Gather
    \/ Return
    \/ MulExpect
    \/ \E w \in Workers : WorkerRecv(w)
    \/ \E w \in Workers : WorkerReply(w)
    \/ \E w \in Workers : WorkerExit(w)

Spec == Init /\ [][Next]_vars

\* The threads are OS threads: each one that can take a step eventually does.
Fairness ==
    /\ WF_vars(CheckDims \/ Spawn \/ Dispatch \/ Gather \/ Return \/ MulExpect)
    /\ \A w \in Workers : WF_vars(WorkerRecv(w) \/ WorkerReply(w) \/ WorkerExit(w))

FairSpec == Spec /\ Fairness

\* A direct call dot_product(va, vb).
Vectors == UNION { [1 .. n -> 0 .. MaxVal] : n \in 0 .. MaxLen }

InitDot ==
    /\ IdleMult(NoMatrix, NoMatrix, "none", "idle")
    /\ va \in Vectors
    /\ vb \in Vectors
    /\ dpc = "call"
    /\ dotOut = <<>>
    /\ IdleFmt
    /\ IdleCmap

NextDot == CallDotProduct

SpecDot == InitDot /\ [][NextDot]_vars

\* format!("{}", fm) of a matrix.
InitFmt ==
    /\ IdleMult(NoMatrix, NoMatrix, "none", "idle")
    /\ IdleDot
    /\ fm \in Shapes(MaxRows, MaxCols, FmtBases)
    /\ fpc = "call"
    /\ shown = ""
    /\ IdleCmap

NextFmt == Fmt

SpecFmt == InitFmt /\ [][NextFmt]_vars

\* Threads calling inc and snapshot on clones of one CmapMetrics.
InitCmap ==
    /\ IdleMult(NoMatrix, NoMatrix, "none", "idle")
    /\ IdleDot
    /\ IdleFmt
    /\ NewCmap(0)

NextCmap ==
    \E t \in Threads :
        \/ \E key \in Keys : IncLock(t, key)
        \/ IncEntry(t)
        \/ IncLoad(t)
        \/ IncStore(t)
        \/ IncReturn(t)
        \/ SnapshotLock(t)
        \/ SnapshotClone(t)

SpecCmap == InitCmap /\ [][NextCmap]_vars

\* ----------------------------------------------------------------- claims
\* The sequential triple loop: cell (ii, jj) is the sum over t in [0, k) of
\* A[ii, t] * B[t, jj], with k = ma.cols.
RECURSIVE RefSum(_, _, _, _, _)
RefSum(ma, mb, ii, jj, t) ==
    IF t >= ma.cols THEN 0
    ELSE ma.data[ii * ma.cols + t + 1] * mb.data[t * mb.cols + jj + 1]
         + RefSum(ma, mb, ii, jj, t + 1)

\* C1: the matrix multiply returns is a.rows x b.cols and its cell
\* i * c + j holds the sum over t of A[i,t] * B[t,j] of the sequential
\* triple loop.
C1_MatchesReference ==
    pc = "done" =>
        LET out == Head(ret).value
        IN /\ Head(ret).ok
           /\ out.rows = a.rows
           /\ out.cols = b.cols
           /\ Len(out.data) = a.rows * b.cols
           /\ \A ii \in 0 .. a.rows - 1 : \A jj \in 0 .. b.cols - 1 :
                  out.data[ii * b.cols + jj + 1] = RefSum(a, b, ii, jj, 0)

\* The test of matrix.rs:163-168 has returned its matrix.
C1_Witness ==
    /\ pc = "done"
    /\ a = Matrix(2, 3, <<1, 2, 3, 4, 5, 6>>)
    /\ b = Matrix(3, 2, <<1, 2, 3, 4, 5, 6>>)
    /\ Head(ret).value.data = <<22, 28, 49, 64>>

\* The buffer a run that handles one task at a time, in index order, leaves:
\* a function of the operands alone.
OneAtATime ==
    [n \in 1 .. a.rows * b.cols |->
        dot_product(RowData((n - 1) \div b.cols), ColData((n - 1) % b.cols)).value]

\* C2: whatever the order in which the workers received, computed and
\* replied, a call that ends leaves the same result buffer, the one the
\* operands determine.
C2_Deterministic == pc = "done" => result = OneAtATime

\* A call has ended although some reply overtook the reply of an earlier task.
C2_Witness == pc = "done" /\ reordered /\ Len(result) >= 2

\* C3: multiply has not returned unless each of the a.rows * b.cols tasks
\* was dispatched, had its reply sent by a worker and had it received by
\* the dispatcher.
C3_Barrier ==
    pc = "done" =>
        /\ Len(oneshots) = a.rows * b.cols
        /\ \A ch \in DOMAIN oneshots :
               /\ Len(oneshots[ch].sent) = 1
               /\ oneshots[ch].rx = "used"
               /\ ch \in consumed

C3_Witness ==
    /\ pc = "done"
    /\ Len(oneshots) = 4
    /\ \A ch \in 1 .. 4 : oneshots[ch].rx = "used"

\* C4: multiply returns the dimension-mismatch error exactly when
\* a.cols # b.rows, and then it is a returned Err value, not a panic.
C4_MismatchIff ==
    pc # "check" =>
        /\ (ret # <<>> /\ ~Head(ret).ok) <=> a.cols # b.rows
        /\ a.cols # b.rows =>
               /\ pc = "err"
               /\ ret = <<Err("Incompatible matrix dimensions")>>

C4_Witness ==
    /\ pc = "err"
    /\ a.cols = 1
    /\ b.rows = 2
    /\ ret # <<>>
    /\ ~Head(ret).ok

\* C5: a matrix is handed to the caller only by a completed call, and then
\* each of its a.rows * b.cols cells was written with the value of the
\* reply received for it; every other call ends without a matrix.
C5_AllOrNothing ==
    /\ (ret # <<>> /\ Head(ret).ok) =>
           /\ pc = "done"
           /\ Len(Head(ret).value.data) = a.rows * b.cols
           /\ \A n \in 1 .. a.rows * b.cols :
                  /\ writes[n] >= 1
                  /\ oneshots[n].sent # <<>>
                  /\ Head(ret).value.data[n] = Head(oneshots[n].sent).value
    /\ mulOut # <<>> => (ret # <<>> /\ Head(ret).ok)
    /\ pc \in {"panic", "err"} => (mulOut = <<>> /\ (ret = <<>> \/ ~Head(ret).ok))

C5_Witness ==
    /\ pc = "done"
    /\ Len(Head(ret).value.data) = 4
    /\ \A n \in 1 .. 4 : writes[n] = 1

\* C6: once multiply has returned (its senders are dropped with its scope),
\* every worker thread eventually ends.
C6_WorkersTerminate ==
    (pc = "done") ~> (\A w \in Workers : wpc[w] \in {"exited", "panicked"})

C6_Witness ==
    /\ pc = "done"
    /\ ~sendersHeld
    /\ Len(oneshots) >= 1
    /\ \A w \in Workers : wpc[w] = "exited"

\* A worker is done with the task of channel ch: it received the Msg and no
\* longer holds it.
Finished(ch) == ch \in consumed /\ \A w \in Workers : cur[w].sender # ch

\* No channel carries more than one reply or a reply for another task.
AtMostOwnReply(ch) ==
    /\ Len(oneshots[ch].sent) <= 1
    /\ \A n \in DOMAIN oneshots[ch].sent : oneshots[ch].sent[n].idx = oneshots[ch].task

\* C7: for every Task a worker consumes exactly one Reply is emitted, with
\* the Task's idx, on the Task's own channel; no channel carries more than
\* one reply or a reply for another task. Stated for well-formed operands.
C7_ExactlyOneReply ==
    (WellFormed(a) /\ WellFormed(b)) =>
        \A ch \in DOMAIN oneshots :
            /\ AtMostOwnReply(ch)
            /\ Finished(ch) => Len(oneshots[ch].sent) = 1

\* The sum of the products, taken from the heads of the two vectors.
RECURSIVE SumProducts(_, _)
SumProducts(x, y) ==
    IF x = <<>> THEN 0 ELSE Head(x) * Head(y) + SumProducts(Tail(x), Tail(y))

\* C8: dot_product(va, vb) is the dimension-mismatch error exactly when
\* the lengths differ, and otherwise the sum of va[n] * vb[n] from 0; all-zero
\* vectors of one length give 0.
C8_DotProduct ==
    dpc = "ret" =>
        LET r == Head(dotOut)
        IN /\ ~r.ok <=> Len(va) # Len(vb)
           /\ ~r.ok => r = Err("Incompatible vector dimensions")
           /\ r.ok => r.value = SumProducts(va, vb)
           /\ (r.ok /\ \A n \in DOMAIN va : va[n] = 0 /\ vb[n] = 0) => r.value = 0

C8_Witness ==
    /\ dpc = "ret"
    /\ va = <<1, 2>>
    /\ vb = <<2, 1>>
    /\ dotOut = <<Ok(4)>>

\* C9: `a * b` yields the matrix multiply(&a, &b) returned whenever
\* a.cols = b.rows and multiply returns, and with a.cols # b.rows it yields
\* neither a matrix nor an error value: it ends in a panic.
C9_OperatorForm ==
    mulpc # "none" =>
        /\ mulpc = "returned" =>
               /\ a.cols = b.rows
               /\ pc = "done"
               /\ mulOut = <<Matrix(a.rows, b.cols, OneAtATime)>>
               /\ mulOut = <<Head(ret).value>>
        /\ a.cols # b.rows =>
               /\ mulOut = <<>>
               /\ mulpc \in {"calling", "panic"}
               /\ (pc = "err" /\ ~ENABLED MulExpect) => mulpc = "panic"
        /\ mulpc = "panic" => mulOut = <<>>

C9_Witness ==
    /\ mulpc = "returned"
    /\ a = Matrix(2, 3, <<1, 2, 3, 4, 5, 6>>)
    /\ b = Matrix(3, 2, <<1, 2, 3, 4, 5, 6>>)
    /\ mulOut = <<Matrix(2, 2, <<22, 28, 49, 64>>)>>

\* The strings of s joined with sep between consecutive ones.
RECURSIVE Join(_, _)
Join(s, sep) ==
    IF s = <<>> THEN ""
    ELSE IF Len(s) = 1 THEN s[1]
         ELSE s[1] \o sep \o Join(Tail(s), sep)

\* Row-major text: cells joined by " ", rows joined by ", ", in braces.
RowMajorText(m) ==
    "{" \o Join([r \in 1 .. m.rows |->
                   Join([c \in 1 .. m.cols |->
                           ToString(m.data[(r - 1) * m.cols + c])], " ")], ", ")
        \o "}"

\* C10: Display writes the cells in row-major order, one space between the
\* cells of a row, ", " between rows, in braces; the 2x3 and 3x2 matrices
\* over 1..6 give "{1 2 3, 4 5 6}" and "{1 2, 3 4, 5 6}".
C10_Display ==
    /\ fpc = "ret" => shown = RowMajorText(fm)
    /\ (fpc # "call" /\ WellFormed(fm)) => fpc = "ret"
    /\ (fpc # "call" /\ fm = Matrix(2, 3, <<1, 2, 3, 4, 5, 6>>))
           => shown = "{1 2 3, 4 5 6}"
    /\ (fpc # "call" /\ fm = Matrix(3, 2, <<1, 2, 3, 4, 5, 6>>))
           => shown = "{1 2, 3 4, 5 6}"

C10_Witness ==
    /\ fpc = "ret"
    /\ fm = Matrix(2, 3, <<1, 2, 3, 4, 5, 6>>)
    /\ shown = "{1 2 3, 4 5 6}"

\* ------------------------------------------------------------------- C11
\* The idx of the Msgs worker w has received, followed by those still queued
\* on its channel.
Received(w) == taken[w] \o [n \in DOMAIN chan[w] |-> chan[w][n].input.idx]

\* How many of the tasks enqueued so far have idx = w modulo NUM_THREADS.
Share(w) ==
    Cardinality({ch \in DOMAIN oneshots : oneshots[ch].task % NUM_THREADS = w})

\* C11: tasks are dealt round-robin. The tasks are enqueued in increasing
\* idx (0, 1, 2, ..); worker w is handed exactly the tasks with
\* idx = w (mod NUM_THREADS) and no others, and it receives them first in,
\* first out: what it has taken followed by what is still queued is
\* w, w + N, w + 2N, .. up to its share of the tasks enqueued so far (only
\* a worker that died has lost the tail of that sequence).
C11_RoundRobin ==
    /\ \A ch \in DOMAIN oneshots : oneshots[ch].task = ch - 1
    /\ \A w \in Workers :
         /\ \A n \in DOMAIN Received(w) :
                Received(w)[n] = w + (n - 1) * NUM_THREADS
         /\ Len(Received(w)) <= Share(w)
         /\ wpc[w] # "panicked" => Len(Received(w)) = Share(w)

\* A call of more than NUM_THREADS tasks has finished: workers 0 and 1 each
\* took two tasks, the second one NUM_THREADS after the first.
C11_Witness ==
    /\ pc = "done"
    /\ taken[0] = <<0, NUM_THREADS>>
    /\ taken[1] = <<1, NUM_THREADS + 1>>
    /\ taken[2] = <<2>>

\* ------------------------------------------------------------------- C12
\* C12: every cell is written exactly once, at the idx its reply carries.
\* The p-th reply the dispatcher receives (p = 0, 1, ..) carries idx = p, so
\* after n replies exactly the first n cells have been written, once each,
\* and in a call that returned every cell has been written exactly once.
C12_WrittenOnce ==
    /\ \A n \in DOMAIN recvLog : recvLog[n].idx = n - 1
    /\ \A n \in DOMAIN writes : writes[n] = IF n <= Len(recvLog) THEN 1 ELSE 0
    /\ pc = "done" => /\ Len(recvLog) = a.rows * b.cols
                      /\ \A n \in DOMAIN writes : writes[n] = 1

\* A call of more than NUM_THREADS cells returned although some reply was
\* sent before the reply of an earlier task.
C12_Witness ==
    /\ pc = "done"
    /\ reordered
    /\ Len(recvLog) > NUM_THREADS
    /\ Len(writes) = Len(recvLog)

\* ------------------------------------------------------------------- C13
\* The dispatcher waits on the reply of a task that has not been answered
\* and whose worker is still to answer it.
AwaitingHead ==
    /\ pc = "gather"
    /\ receivers # <<>>
    /\ oneshots[Head(receivers)].sent = <<>>
    /\ oneshots[Head(receivers)].tx = "held"

\* C13: dispatch first, gather afterwards, in creation order. No reply is
\* received before all a.rows * b.cols tasks have been sent; the n-th reply
\* received comes from the n-th channel created; and while the reply of the
\* receiver at the head is missing the dispatcher cannot take any step,
\* whatever later replies are already there.
C13_SendThenGather ==
    /\ recvLog # <<>> => Len(oneshots) = a.rows * b.cols
    /\ \A n \in DOMAIN recvLog : recvLog[n].ch = n
    /\ pc = "gather" /\ receivers # <<>> => Head(receivers) = Len(recvLog) + 1
    /\ AwaitingHead => ~ENABLED (Gather \/ Return \/ Dispatch)

\* The dispatcher has received a reply and now waits on a receiver whose
\* reply is missing while the reply of a later task is already there.
C13_Witness ==
    /\ AwaitingHead
    /\ recvLog # <<>>
    /\ \E ch \in DOMAIN oneshots :
          ch > Head(receivers) /\ oneshots[ch].sent # <<>>

\* ------------------------------------------------------------------- C14
\* The places (worker w's hands, n = 0, or slot n of its queue) that hold the
\* Msg of oneshot channel ch, and with it the task's row and column.
Holders(ch) ==
    {<<w, 0>> : w \in {x \in Workers : cur[x].sender = ch}}
    \cup {wn \in Workers \X (1 .. MaxCells + 1) :
            wn[2] \in DOMAIN chan[wn[1]] /\ chan[wn[1]][wn[2]].sender = ch}

SingleOwner == \A ch \in DOMAIN oneshots : Cardinality(Holders(ch)) <= 1

\* A step that changes the result buffer either creates it (before any
\* worker runs) or is the dispatcher receiving a reply that was sent before
\* the step: no worker moves in it, and the one cell it changes is the cell
\* of the reply's idx, set to the reply's value.
BufferStep ==
    (result' # result \/ writes' # writes) =>
        \/ pc = "spawn"
        \/ /\ pc = "gather"
           /\ wpc' = wpc /\ cur' = cur /\ chan' = chan
           /\ Len(recvLog') = Len(recvLog) + 1
           /\ LET reply == recvLog'[Len(recvLog')]
              IN /\ oneshots[reply.ch].sent # <<>>
                 /\ result'[reply.idx + 1] = Head(oneshots[reply.ch].sent).value
                 /\ \A n \in DOMAIN result :
                       n # reply.idx + 1 =>
                          result'[n] = result[n] /\ writes'[n] = writes[n]

\* C14: no data is shared between threads. The result buffer changes only
\* in dispatcher steps, each write following the reception of its reply, and
\* never in a worker's step; the operands of a task in flight are in exactly
\* one place at a time (one worker's queue or one worker's hands).
C14_NoSharing == []SingleOwner /\ [][BufferStep]_vars

\* A worker computes on one task with another task waiting in its queue,
\* while the dispatcher has already written a cell.
C14_Witness ==
    /\ recvLog # <<>>
    /\ \E w \in Workers :
          /\ wpc[w] = "busy"
          /\ chan[w] # <<>>
          /\ Holders(cur[w].sender) = {<<w, 0>>}

\* ------------------------------------------------------------------- C15
\* Worker w sits in its loop's receive with nothing queued.
IdleEmpty(w) == wpc[w] = "idle" /\ chan[w] = <<>>

\* C15: the worker pool. Before the dimension check passes there is no
\* worker; once it has passed there are exactly NUM_THREADS workers, one per
\* channel. While the dispatcher holds the senders no worker has left its
\* loop, and a worker with an empty queue can take no step at all: it blocks;
\* it leaves its loop only after the senders are dropped.
C15_WorkerPool ==
    /\ Cardinality(DOMAIN wpc) = NUM_THREADS
    /\ DOMAIN chan = DOMAIN wpc
    /\ pc \in {"idle", "check", "err", "spawn"} =>
          \A w \in Workers : wpc[w] = "unborn"
    /\ pc \in {"dispatch", "gather", "done", "panic"} =>
          \A w \in Workers : wpc[w] # "unborn"
    /\ sendersHeld => \A w \in Workers : wpc[w] # "exited"
    /\ \A w \in Workers :
          IdleEmpty(w) /\ sendersHeld =>
             ~ENABLED (WorkerRecv(w) \/ WorkerReply(w) \/ WorkerExit(w))

\* Nothing has failed, the dispatcher still gathers and holds the senders,
\* and a worker that has served a task waits on its empty queue.
C15_Witness ==
    /\ pc = "gather"
    /\ sendersHeld
    /\ failures = {}
    /\ \E w \in Workers : IdleEmpty(w) /\ taken[w] # <<>>

\* ------------------------------------------------------------------- C16
\* The reply the dispatcher waits on can never come: its sender was dropped
\* unsent, because the worker that held the task has terminated.
LostHead ==
    /\ pc = "gather"
    /\ receivers # <<>>
    /\ oneshots[Head(receivers)].sent = <<>>
    /\ oneshots[Head(receivers)].tx = "dropped"

\* The dispatcher stays where it is: it neither returns nor fails.
StaysBlocked == pc' = "gather" /\ receivers' = receivers /\ ret' = ret

\* C16 as stated: when the worker of the awaited task has terminated without
\* replying, the call neither returns nor fails; it stays blocked.
C16_LostWorkerStalls == [][LostHead => StaysBlocked]_vars

\* C16, amended: only a worker that is alive stalls the call. While the
\* awaited reply has not been sent and its sender still exists, every step
\* leaves the dispatcher blocked on that receive. Once the sender is dropped
\* unsent the receive can complete, and the only way the dispatcher leaves it
\* is by aborting: the call never returns, but it fails.
C16_StallOrAbort ==
    /\ [][AwaitingHead => StaysBlocked]_vars
    /\ [][LostHead => StaysBlocked \/ (pc' = "panic" /\ ret' = <<>>)]_vars
    /\ [](LostHead => ENABLED Gather)

\* The call has aborted on a reply receive whose worker had terminated.
C16_Witness ==
    /\ pc = "panic"
    /\ "reply_recv" \in failures
    /\ \E w \in Workers : wpc[w] = "panicked"

\* ------------------------------------------------------------------- C17
\* The failures the policy is about: of a channel operation or of a dot
\* product.
PolicyFailures ==
    failures \cap {"task_send", "reply_recv", "reply_send", "dot_product"}

\* After any such failure the call has returned nothing, neither a matrix
\* nor an error value, and it is still running or has aborted; the failures
\* of the dispatcher's own channel operations, and a reply send whose
\* receiver is gone, are only seen in a call that has aborted.
FailedNeverReturns ==
    /\ PolicyFailures # {} =>
          /\ pc \in {"dispatch", "gather", "panic"}
          /\ ret = <<>>
          /\ mulOut = <<>>
    /\ PolicyFailures \ {"dot_product"} # {} => pc = "panic"
    /\ pc = "panic" => ret = <<>> /\ mulOut = <<>> /\ ~sendersHeld

\* C17: a channel failure or a dot-product failure aborts the call. The
\* call returns nothing after one, and under fair scheduling it ends up
\* aborted.
C17_FailureAborts ==
    /\ []FailedNeverReturns
    /\ (PolicyFailures # {}) ~> (pc = "panic")

\* A call has aborted after a dot product failed in one worker, the reply
\* receive of that task failed, and another worker's reply found its
\* receiver gone.
C17_Witness ==
    /\ pc = "panic"
    /\ {"dot_product", "reply_recv", "reply_send"} \subseteq failures

\* ------------------------------------------------------------------- C18
\* A is r x 0 and B is 0 x c, both with empty data.
ZeroInner == a.cols = 0 /\ b.rows = 0 /\ a.data = <<>> /\ b.data = <<>>

\* C18: with a zero inner dimension the call does not abort (extracting
\* column j of B succeeds for every j), and the matrix it returns is
\* a.rows x b.cols with every cell the additive identity.
C18_ZeroInner ==
    ZeroInner =>
        /\ pc # "panic"
        /\ pc = "done" =>
              /\ ret[1].ok
              /\ ret[1].value =
                    Matrix(a.rows, b.cols, [n \in 1 .. a.rows * b.cols |-> Default])

\* ------------------------------------------------------------------- C19
\* The call has started and has not returned.
Unreturned == pc \in {"check", "spawn", "dispatch", "gather", "panic"}

\* C19: deadlock freedom. For compatible operands whose data have
\* rows * cols elements, a call that has not returned has not aborted
\* and some thread can take a step.
C19_DeadlockFree ==
    WellFormed(a) /\ WellFormed(b) /\ ~Incompatible(a, b) /\ Unreturned =>
        pc # "panic" /\ ENABLED Next

\* ------------------------------------------------------------------- C20
\* The map in which key k counts done[k], the keys never counted absent.
MapOf(done) == [k \in {x \in Keys : done[x] > 0} |-> done[k]]

Count(m, k) == IF k \in DOMAIN m THEN m[k] ELSE 0

\* C20: CmapMetrics loses no updates. At most one thread is between lock
\* and unlock; whenever the mutex is free the map counts, for every key,
\* exactly the inc calls of that key that have completed; a snapshot is
\* exactly the map of the inc calls completed when it was taken; and no
\* key's count is lower in a snapshot than in the snapshot before it.
C20_NoLostUpdates ==
    /\ \A t \in Threads :
          tpc[t] \in {"inc_entry", "inc_load", "inc_store", "inc_ret", "snap_clone"}
             => holder = t
    /\ holder = 0 => mdata = MapOf(completed)
    /\ lastSnap # <<>> => lastSnap[1].map = MapOf(lastSnap[1].done)
    /\ lastSnap # <<>> /\ prevSnap # <<>> =>
          \A k \in Keys : Count(prevSnap[1], k) <= Count(lastSnap[1].map, k)

\* Every thread has completed a call, MaxThreads incs of key x have
\* completed, and a snapshot taken since reports them all while the
\* snapshot before it reported fewer.
C20_Witness ==
    /\ prevSnap # <<>>
    /\ lastSnap # <<>>
    /\ Count(lastSnap[1].map, "x") = MaxThreads
    /\ Count(prevSnap[1], "x") < MaxThreads
    /\ \A t \in Threads : ops[t] >= 1

====
